---------------------------- MODULE Spec2Model ----------------------------
(***************************************************************************)
(* Model of src/02_01_replace_directory_apostrophes.py: the DirectoryRenamer*)
(* class (discovery, eligibility, rename, validation) and main().           *)
(*                                                                         *)
(* A directory name is a sequence of code points, a path is a sequence of  *)
(* names (pathlib's parts).  The filesystem is a forest of directory       *)
(* nodes 1..n under the base directory (node 0): parent[d] and name[d].    *)
(* A rename changes name[d] only; the node keeps its identity.             *)
(*                                                                         *)
(* Further down: main() of the four Strapi uploader scripts (SpecUpload),  *)
(* fetch_projects (SpecFetch) and the collage copy script (SpecCollage).   *)
(***************************************************************************)
EXTENDS Integers, Sequences, FiniteSets, TLC

\* ------------------------------------------------------------------ bounds
\* Largest number of directories below the base directory.
MaxDirs == 3
\* Longest name handed to the two pure name functions (SpecNames).
MaxNameLen == 3
\* Most runs of the tool over one tree (SpecRerun).
MaxRuns == 2
\* Most projects handed to main() of an uploader (SpecUpload).
MaxProjects == 2
\* Most media files in one project's media folder (SpecUpload).
MaxMedia == 2
\* Most records the server holds (SpecFetch).
MaxRecords == 3
\* Records per page; stands for page_size = 100 (SpecFetch).
PageSize == 2
\* Most files in SOURCE_DIR that match the suffix (SpecCollage).
MaxSourceFiles == 3
\* Most _collage directories under PROJECT_ROOT (SpecCollage).
MaxCollageDirs == 2

\* ---------------------------------------------------------- code points
\* The plain mark and the typographic mark the docstring speaks of.
U0027 == 39
U2019 == 8217

\* Line 35: STRAIGHT_APOSTROPHE = "'" (the byte 0x27).
STRAIGHT_APOSTROPHE == 39
\* Line 36: the literal between the quotes is the single byte 0x27 as well;
\* only the comment beside it says U+2019.
TYPOGRAPHIC_APOSTROPHE == 39

\* Alphabet of the names: the two marks, the digit "2" and the letter "a".
Chars == {U0027, U2019, 50, 97}

IsDigit(c) == c \in 48..57

\* YEAR_PATTERN = re.compile(r'^\d{4}') used with .match(dir_name).
YEAR_PATTERN_match(s) == Len(s) >= 4 /\ \A i \in 1..4 : IsDigit(s[i])

\* The base directory given on the command line, as path parts "/" "b".
BaseDir == << <<47>>, <<98>> >>

VARIABLES
  base_exists,       \* whether base_dir exists on disk
  parent,            \* filesystem: parent[d] in 0..n, 0 is base_dir
  name,              \* filesystem: current name of directory d
  stat_info,         \* filesystem: mode / owner / times of directory d
  start_name,        \* history: name[d] when the run started
  dry_run,           \* self.dry_run
  renamed_dirs,      \* self.renamed_dirs: sequence of <<old path, new path>>
  skipped_dirs,      \* self.skipped_dirs: sequence of paths
  error_dirs,        \* self.error_dirs: sequence of <<path, reason>>
  metadata_cache,    \* self.metadata_cache: set of <<str(path), snapshot>>
  year_dirs,         \* local of process_directories
  all_dirs,          \* local of process_directories
  idx,               \* loop position in all_dirs / year_dirs
  calls,             \* history: the arguments of rename_directory, in order
  validation_success,\* local of run()
  exit_status,       \* value handed to exit(): -1 while running
  pc,                \* position of the script
  dir_name,          \* SpecNames: the name under test
  needs,             \* SpecNames: needs_standardization(dir_name)
  std_name,          \* SpecNames: standardize_apostrophes(dir_name)
  upc,               \* SpecNames: position of the name test
  os_env,            \* history: what the operating system answered to the
                     \* latest rename_directory call <<stat, rename, utime>>
  env_open,          \* whether the answers are explored for every call
  run_no,            \* which run of the tool this is (1, 2, ...)
  prev_clean,        \* history: the previous run was not simulated and
                     \* recorded no error
  \* ---- uploader scripts
  script,            \* which uploader script runs
  DRY_RUN,           \* the module constant DRY_RUN as configured
  projects,          \* main: what fetch_projects returned
  processed_ids,     \* main: processed_ids
  project_no,        \* main: position of the loop over projects
  file_no,           \* main: position of the loop over media_files
  media_ids,         \* main: media_ids
  requests_log,      \* history: the HTTP requests sent, in order
  mpc,               \* main: position ("off", "project", "files", ...)
  \* ---- fetch_projects
  pages,             \* the server: the records of each page
  page,              \* fetch_projects: page
  rec_no,            \* fetch_projects: position in page_projects
  seen_ids,          \* fetch_projects: seen_ids
  valid_projects,    \* fetch_projects: valid_projects
  all_projects,      \* fetch_projects: all_projects
  fetch_error,       \* the exception that left fetch_projects, or "none"
  fpc,               \* fetch_projects: position
  \* ---- collage copy script
  all_collage_dirs,  \* keys of all_collage_dirs
  source_files,      \* per matching source file: its closest directory
  src_no,            \* position of the loop over the source files
  copied,            \* the filesystem: pairs <<file, directory>> copied
  used_collage_dirs, \* used_collage_dirs
  unmatched_files,   \* unmatched_files
  log_unmatched,     \* LOG_FILE: the lines under UNMATCHED FILES
  log_unused,        \* LOG_FILE: the lines under UNUSED COLLAGE DIRECTORIES
  cpc                \* collage script: position

fsvars == <<base_exists, parent, name, stat_info>>
ledgers == <<renamed_dirs, skipped_dirs, error_dirs>>
namevars == <<dir_name, needs, std_name, upc>>
envvars == <<os_env, env_open, run_no, prev_clean>>
uploadvars == <<script, DRY_RUN, projects, processed_ids, project_no,
                file_no, media_ids, requests_log, mpc>>
fetchvars == <<pages, page, rec_no, seen_ids, valid_projects, all_projects,
               fetch_error, fpc>>
collagevars == <<all_collage_dirs, source_files, src_no, copied,
                 used_collage_dirs, unmatched_files, log_unmatched,
                 log_unused, cpc>>
scriptvars == <<uploadvars, fetchvars, collagevars>>
renamervars == <<base_exists, parent, name, stat_info, start_name, dry_run,
                 renamed_dirs, skipped_dirs, error_dirs, metadata_cache,
                 year_dirs, all_dirs, idx, calls, validation_success,
                 exit_status, pc, dir_name, needs, std_name, upc,
                 os_env, env_open, run_no, prev_clean>>
vars == <<renamervars, scriptvars>>

Dirs == DOMAIN name

\* ------------------------------------------------------ name functions
\* c in s, for a one-character c.
Contains(s, c) == \E i \in 1..Len(s) : s[i] = c

has_straight_apostrophe(s) == Contains(s, STRAIGHT_APOSTROPHE)

has_typographic_apostrophe(s) == Contains(s, TYPOGRAPHIC_APOSTROPHE)

\* needs_standardization without the test for the typographic mark.
NeedsStraightOnly(s) == has_straight_apostrophe(s)

needs_standardization(s) ==
  has_straight_apostrophe(s) /\ ~has_typographic_apostrophe(s)

\* str.replace(old, new) for one-character old and new.
StrReplace(s, old, new) ==
  [i \in 1..Len(s) |-> IF s[i] = old THEN new ELSE s[i]]

standardize_apostrophes(s) ==
  StrReplace(s, STRAIGHT_APOSTROPHE, TYPOGRAPHIC_APOSTROPHE)

\* ---------------------------------------------------------- filesystem
RECURSIVE PathOf(_)
\* The path of directory d as it is on disk now.
PathOf(d) ==
  IF d = 0 THEN BaseDir ELSE Append(PathOf(parent[d]), name[d])

\* Path.exists().
Exists(p) ==
  \/ p = BaseDir /\ base_exists
  \/ \E d \in Dirs : PathOf(d) = p

\* The directory a path names (0 for base_dir); only used where Exists(p).
Resolve(p) ==
  IF p = BaseDir THEN 0 ELSE CHOOSE d \in Dirs : PathOf(d) = p

\* The subdirectories of d in listing order (the order of os.scandir).
ChildSeq(d) ==
  SelectSeq([i \in 1..Cardinality(Dirs) |-> i], LAMBDA c : parent[c] = d)

RECURSIVE WalkList(_)
\* os.walk, top-down: the directories visited, given the pending ones.
WalkList(todo) ==
  IF todo = <<>> THEN <<>>
  ELSE <<Head(todo)>> \o WalkList(ChildSeq(Head(todo)) \o Tail(todo))

\* os.walk(p): nothing when p is not a directory.
os_walk(p) == IF Exists(p) THEN WalkList(<<Resolve(p)>>) ELSE <<>>

Front(s) == SubSeq(s, 1, Len(s) - 1)
Last(s) == s[Len(s)]

\* ----------------------------------------------------------- discovery
RECURSIVE YearDirsOf(_)
\* Lines 64-68: for each directory os.walk visits, the subdirectories whose
\* name matches YEAR_PATTERN, as Path(root) / dir_name.
YearDirsOf(visited) ==
  IF visited = <<>> THEN <<>>
  ELSE LET root == Head(visited)
           hits == SelectSeq(ChildSeq(root),
                             LAMBDA c : YEAR_PATTERN_match(name[c]))
       IN [i \in 1..Len(hits) |-> Append(PathOf(root), name[hits[i]])]
          \o YearDirsOf(Tail(visited))

find_year_prefixed_dirs == YearDirsOf(os_walk(BaseDir))

RECURSIVE SubdirsOf(_)
\* Lines 171-173: every subdirectory of every directory os.walk visits.
SubdirsOf(visited) ==
  IF visited = <<>> THEN <<>>
  ELSE LET root == Head(visited)
           ds == ChildSeq(root)
       IN [i \in 1..Len(ds) |-> Append(PathOf(root), name[ds[i]])]
          \o SubdirsOf(Tail(visited))

RECURSIVE CollectAll(_)
\* Lines 169-173: the walks of all year directories, one after the other.
CollectAll(years) ==
  IF years = <<>> THEN <<>>
  ELSE SubdirsOf(os_walk(Head(years))) \o CollectAll(Tail(years))

RECURSIVE SortFrom(_, _)
\* list.sort(key=len(p.parts), reverse=True): stable, longest paths first.
SortFrom(s, depth) ==
  IF depth < 0 THEN <<>>
  ELSE SelectSeq(s, LAMBDA p : Len(p) = depth) \o SortFrom(s, depth - 1)

SortDeepestFirst(s) == SortFrom(s, Len(BaseDir) + MaxDirs + 1)

\* ------------------------------------------------------------- metadata
\* Lines 92-100: the snapshot of dir_path stored under str(dir_path).
save_metadata(dir_path) ==
  {e \in metadata_cache : e[1] # dir_path}
    \cup {<<dir_path, stat_info[Resolve(dir_path)]>>}

\* Lines 108-119: the attributes after restore_metadata(p), looked up in
\* cache under str(p); ok is whether chmod/chown/utime succeed.
restore_metadata(p, cache, d, ok) ==
  IF (\E e \in cache : e[1] = p) /\ ok
  THEN LET m == (CHOOSE e \in cache : e[1] = p)[2]
       IN [stat_info EXCEPT ![d] = [@ EXCEPT !.mode = m.mode, !.uid = m.uid,
                                              !.gid = m.gid, !.atime = m.atime,
                                              !.mtime = m.mtime]]
  ELSE stat_info

\* --------------------------------------------------------------- rename
\* Lines 130-160: the part of rename_directory after the eligibility test.
rename_eligible(dir_path, stat_ok, rename_ok, restore_ok) ==
  LET dn == Last(dir_path)
      parent_dir == Front(dir_path)
      new_name == standardize_apostrophes(dn)
      new_path == Append(parent_dir, new_name)
  IN IF Exists(new_path)
     THEN /\ error_dirs' =
               Append(error_dirs, <<dir_path, "Destination already exists">>)
          /\ UNCHANGED <<name, stat_info, renamed_dirs, skipped_dirs,
                         metadata_cache>>
     ELSE IF ~(Exists(dir_path) /\ stat_ok)
     THEN /\ error_dirs' =
               Append(error_dirs, <<dir_path, "Failed to save metadata">>)
          /\ UNCHANGED <<name, stat_info, renamed_dirs, skipped_dirs,
                         metadata_cache>>
     ELSE IF dry_run
     THEN /\ metadata_cache' = save_metadata(dir_path)
          /\ renamed_dirs' = Append(renamed_dirs, <<dir_path, new_path>>)
          /\ UNCHANGED <<name, stat_info, skipped_dirs, error_dirs>>
     ELSE IF ~rename_ok
     THEN /\ metadata_cache' = save_metadata(dir_path)
          /\ error_dirs' = Append(error_dirs, <<dir_path, "OSError">>)
          /\ UNCHANGED <<name, stat_info, renamed_dirs, skipped_dirs>>
     ELSE /\ metadata_cache' = save_metadata(dir_path)
          /\ name' = [name EXCEPT ![Resolve(dir_path)] = new_name]
          /\ stat_info' = restore_metadata(new_path, save_metadata(dir_path),
                                           Resolve(dir_path), restore_ok)
          /\ renamed_dirs' = Append(renamed_dirs, <<dir_path, new_path>>)
          /\ UNCHANGED <<skipped_dirs, error_dirs>>

\* rename_directory with line 127 left out: a skip is not recorded.
RenameForgetsSkip(dir_path, stat_ok, rename_ok, restore_ok) ==
  /\ calls' = Append(calls, dir_path)
  /\ IF ~needs_standardization(Last(dir_path))
     THEN UNCHANGED <<name, stat_info, renamed_dirs, skipped_dirs,
                      error_dirs, metadata_cache>>
     ELSE rename_eligible(dir_path, stat_ok, rename_ok, restore_ok)

\* rename_directory with line 127 appending to the wrong ledger.
RenameLogsSkipAsRenamed(dir_path, stat_ok, rename_ok, restore_ok) ==
  /\ calls' = Append(calls, dir_path)
  /\ IF ~needs_standardization(Last(dir_path))
     THEN /\ renamed_dirs' = Append(renamed_dirs, <<dir_path, dir_path>>)
          /\ UNCHANGED <<name, stat_info, skipped_dirs, error_dirs,
                         metadata_cache>>
     ELSE rename_eligible(dir_path, stat_ok, rename_ok, restore_ok)

\* Lines 121-160.  stat_ok, rename_ok and restore_ok are the environment:
\* whether os.stat, Path.rename and chmod/chown/utime succeed.
rename_directory(dir_path, stat_ok, rename_ok, restore_ok) ==
  /\ calls' = Append(calls, dir_path)
  /\ IF ~needs_standardization(Last(dir_path))
     THEN /\ skipped_dirs' = Append(skipped_dirs, dir_path)
          /\ UNCHANGED <<name, stat_info, renamed_dirs, error_dirs,
                         metadata_cache>>
     ELSE rename_eligible(dir_path, stat_ok, rename_ok, restore_ok)

\* What the environment may answer to the os.stat, Path.rename and
\* chmod/chown/utime calls of rename_directory(dir_path); a call that skips
\* makes none of them, and its answers are explored only under env_open.
Environment(dir_path) ==
  IF needs_standardization(Last(dir_path)) \/ env_open
  THEN BOOLEAN \X BOOLEAN \X BOOLEAN
  ELSE {<<TRUE, TRUE, TRUE>>}

\* ------------------------------------------------------------ validation
ValidateIgnoringEmptyRun ==
  ~\E i \in 1..Len(renamed_dirs) : ~Exists(renamed_dirs[i][2])

\* Lines 195-207.
validate_changes ==
  IF \E i \in 1..Len(renamed_dirs) : ~Exists(renamed_dirs[i][2])
  THEN FALSE
  ELSE IF Len(renamed_dirs) + Len(skipped_dirs) + Len(error_dirs) = 0
  THEN FALSE
  ELSE TRUE

ExitAlwaysZero(success) == 0

\* Lines 279-285: the value main() returns to exit().
main_status(success) == IF success THEN 0 ELSE 1

\* ------------------------------------------------------- initial states
\* "2222": a name prefix that matches YEAR_PATTERN.
YearPrefix == <<50, 50, 50, 50>>

\* Names of the directories of a tree: "a", "'", U+2019, U+2019 then "'",
\* each with and without the year prefix.
TreeNames ==
  {pre \o suf : pre \in {<<>>, YearPrefix},
                suf \in {<<97>>, <<U0027>>, <<U2019>>, <<U2019, U0027>>}}

\* Every name over Chars of length 0..n.
NamesUpTo(n) == UNION {[1..k -> Chars] : k \in 0..n}

\* A tree: parents come before children, siblings have different names.
IsTree(par, nm) ==
  /\ \A d \in DOMAIN par : par[d] < d
  /\ \A d, e \in DOMAIN par : (d # e /\ par[d] = par[e]) => nm[d] # nm[e]

\* The uploader scripts are not running.
UploadIdle ==
  /\ script = "none" /\ DRY_RUN = FALSE /\ projects = <<>>
  /\ processed_ids = {} /\ project_no = 1 /\ file_no = 1
  /\ media_ids = <<>> /\ requests_log = <<>> /\ mpc = "off"

\* fetch_projects is not running.
FetchIdle ==
  /\ pages = <<>> /\ page = 1 /\ rec_no = 1 /\ seen_ids = {}
  /\ valid_projects = <<>> /\ all_projects = <<>>
  /\ fetch_error = "none" /\ fpc = "off"

\* The collage copy script is not running.
CollageIdle ==
  /\ all_collage_dirs = {} /\ source_files = <<>> /\ src_no = 1
  /\ copied = {} /\ used_collage_dirs = {} /\ unmatched_files = <<>>
  /\ log_unmatched = <<>> /\ log_unused = {} /\ cpc = "off"

RunIdle ==
  /\ os_env = <<TRUE, TRUE, TRUE>>
  /\ renamed_dirs = <<>> /\ skipped_dirs = <<>> /\ error_dirs = <<>>
  /\ metadata_cache = {}
  /\ year_dirs = <<>> /\ all_dirs = <<>> /\ idx = 1 /\ calls = <<>>
  /\ validation_success = FALSE /\ exit_status = -1

NameTestIdle ==
  dir_name = <<>> /\ needs = FALSE /\ std_name = <<>> /\ upc = "off"

\* Lines 40-46 and 270-276: a fresh DirectoryRenamer over some tree.
InitTree ==
  /\ base_exists \in BOOLEAN
  /\ dry_run \in BOOLEAN
  /\ \E n \in 0..MaxDirs :
       /\ parent \in [1..n -> 0..MaxDirs]
       /\ name \in [1..n -> TreeNames]
       /\ IsTree(parent, name)
       /\ base_exists \/ n = 0
       /\ stat_info = [d \in 1..n |->
                         [mode |-> 493, uid |-> 1000, gid |-> 1000,
                          atime |-> d, mtime |-> d]]
  /\ start_name = name
  /\ RunIdle
  /\ NameTestIdle
  /\ run_no = 1 /\ prev_clean = FALSE
  /\ pc = "find"
  /\ UploadIdle /\ FetchIdle /\ CollageIdle

Init == InitTree /\ env_open = FALSE

\* --------------------------------------------------------------- actions
\* Line 165: year_dirs = self.find_year_prefixed_dirs().
FindYearDirs ==
  /\ pc = "find"
  /\ year_dirs' = find_year_prefixed_dirs
  /\ pc' = "collect"
  /\ UNCHANGED <<envvars, scriptvars>>
  /\ UNCHANGED <<fsvars, start_name, dry_run, ledgers, metadata_cache,
                 all_dirs, idx, calls, validation_success, exit_status,
                 namevars>>

\* Lines 169-176: collect the subdirectories and sort them.
CollectSubdirs ==
  /\ pc = "collect"
  /\ all_dirs' = SortDeepestFirst(CollectAll(year_dirs))
  /\ idx' = 1
  /\ pc' = IF all_dirs' # <<>> THEN "subdirs"
           ELSE IF year_dirs # <<>> THEN "years" ELSE "validate"
  /\ UNCHANGED <<envvars, scriptvars>>
  /\ UNCHANGED <<fsvars, start_name, dry_run, ledgers, metadata_cache,
                 year_dirs, calls, validation_success, exit_status, namevars>>

\* Lines 181-184: one iteration of the loop over all_dirs.
ProcessSubdir ==
  /\ pc = "subdirs"
  /\ \E env \in Environment(all_dirs[idx]) :
       /\ rename_directory(all_dirs[idx], env[1], env[2], env[3])
       /\ os_env' = env
  /\ idx' = IF idx + 1 > Len(all_dirs) THEN 1 ELSE idx + 1
  /\ pc' = IF idx + 1 > Len(all_dirs) THEN "years" ELSE "subdirs"
  /\ UNCHANGED <<env_open, run_no, prev_clean, scriptvars>>
  /\ UNCHANGED <<base_exists, parent, start_name, dry_run, year_dirs,
                 all_dirs, validation_success, exit_status, namevars>>

\* Lines 188-189: one iteration of the loop over year_dirs.
ProcessYearDir ==
  /\ pc = "years"
  /\ \E env \in Environment(year_dirs[idx]) :
       /\ rename_directory(year_dirs[idx], env[1], env[2], env[3])
       /\ os_env' = env
  /\ idx' = idx + 1
  /\ pc' = IF idx + 1 > Len(year_dirs) THEN "validate" ELSE "years"
  /\ UNCHANGED <<env_open, run_no, prev_clean, scriptvars>>
  /\ UNCHANGED <<base_exists, parent, start_name, dry_run, year_dirs,
                 all_dirs, validation_success, exit_status, namevars>>

\* Line 249: validation_success = self.validate_changes().
Validate ==
  /\ pc = "validate"
  /\ validation_success' = validate_changes
  /\ pc' = "exit"
  /\ UNCHANGED <<envvars, scriptvars>>
  /\ UNCHANGED <<fsvars, start_name, dry_run, ledgers, metadata_cache,
                 year_dirs, all_dirs, idx, calls, exit_status, namevars>>

\* Lines 268, 277-288: run() returns validation_success, main() maps it to
\* the status given to exit().
Exit ==
  /\ pc = "exit"
  /\ exit_status' = main_status(validation_success)
  /\ pc' = "done"
  /\ UNCHANGED <<envvars, scriptvars>>
  /\ UNCHANGED <<fsvars, start_name, dry_run, ledgers, metadata_cache,
                 year_dirs, all_dirs, idx, calls, validation_success,
                 namevars>>

Next ==
  \/ FindYearDirs
  \/ CollectSubdirs
  \/ ProcessSubdir
  \/ ProcessYearDir
  \/ Validate
  \/ Exit

Spec == Init /\ [][Next]_vars

\* The same runs, with every answer of the operating system explored and
\* recorded in os_env, also for the calls that make no system call.
InitFaults == InitTree /\ env_open = TRUE

SpecFaults == InitFaults /\ [][Next]_vars

\* Lines 270-277 again: the tool is started once more over the tree the
\* previous run left, with a fresh DirectoryRenamer.
Rerun ==
  /\ pc = "done"
  /\ run_no < MaxRuns
  /\ run_no' = run_no + 1
  /\ prev_clean' = (~dry_run /\ error_dirs = <<>>)
  /\ dry_run' \in BOOLEAN
  /\ start_name' = name
  /\ renamed_dirs' = <<>> /\ skipped_dirs' = <<>> /\ error_dirs' = <<>>
  /\ metadata_cache' = {}
  /\ year_dirs' = <<>> /\ all_dirs' = <<>> /\ idx' = 1 /\ calls' = <<>>
  /\ validation_success' = FALSE /\ exit_status' = -1
  /\ os_env' = <<TRUE, TRUE, TRUE>>
  /\ pc' = "find"
  /\ UNCHANGED <<fsvars, env_open, namevars, scriptvars>>

NextRerun == Next \/ Rerun

SpecRerun == Init /\ [][NextRerun]_vars

\* ------------------------------------------- the name functions alone
InitNames ==
  /\ dir_name \in NamesUpTo(MaxNameLen)
  /\ needs = FALSE /\ std_name = <<>> /\ upc = "new"
  /\ base_exists = TRUE /\ dry_run = FALSE
  /\ parent = <<>> /\ name = <<>> /\ stat_info = <<>> /\ start_name = <<>>
  /\ RunIdle
  /\ env_open = FALSE /\ run_no = 1 /\ prev_clean = FALSE
  /\ pc = "off"
  /\ UploadIdle /\ FetchIdle /\ CollageIdle

\* needs_standardization(dir_name), lines 81-83.
CallNeeds ==
  /\ upc = "new"
  /\ needs' = needs_standardization(dir_name)
  /\ upc' = "classified"
  /\ UNCHANGED <<envvars, scriptvars>>
  /\ UNCHANGED <<fsvars, start_name, dry_run, ledgers, metadata_cache,
                 year_dirs, all_dirs, idx, calls, validation_success,
                 exit_status, pc, dir_name, std_name>>

\* standardize_apostrophes(dir_name), lines 85-87.
CallStandardize ==
  /\ upc = "classified"
  /\ std_name' = standardize_apostrophes(dir_name)
  /\ upc' = "standardized"
  /\ UNCHANGED <<envvars, scriptvars>>
  /\ UNCHANGED <<fsvars, start_name, dry_run, ledgers, metadata_cache,
                 year_dirs, all_dirs, idx, calls, validation_success,
                 exit_status, pc, dir_name, needs>>

NextNames == CallNeeds \/ CallStandardize

SpecNames == InitNames /\ [][NextNames]_vars

\* ===================================================================
\* Vocabulary of the properties: what the documentation calls the plain
\* mark (U+0027) and the typographic mark (U+2019).
\* ===================================================================
\* A name that has the plain mark and not the typographic mark.
PlainOnly(s) == Contains(s, U0027) /\ ~Contains(s, U2019)

\* s with every plain mark replaced by the typographic mark.
Converted(s) == [i \in 1..Len(s) |-> IF s[i] = U0027 THEN U2019 ELSE s[i]]

RECURSIVE StartPathOf(_)
\* The path of directory d when the run started.
StartPathOf(d) ==
  IF d = 0 THEN BaseDir ELSE Append(StartPathOf(parent[d]), start_name[d])

RECURSIVE UnderYear(_)
\* d is a year-prefixed directory or a descendant of one (by start names).
UnderYear(d) ==
  d # 0 /\ (YEAR_PATTERN_match(start_name[d]) \/ UnderYear(parent[d]))

\* The directories the run is meant to rename.
InScope == {d \in Dirs : UnderYear(d) /\ PlainOnly(start_name[d])}

IsProperPrefix(p, q) == Len(p) < Len(q) /\ SubSeq(q, 1, Len(p)) = p

Processed == Len(renamed_dirs) + Len(skipped_dirs) + Len(error_dirs)

RunOver == pc \in {"validate", "exit", "done"}

\* The path rename_directory is about to be called with.
CurrentDir == IF pc = "subdirs" THEN all_dirs[idx] ELSE year_dirs[idx]

\* ------------------------------------------------------------------ C1
\* C1: after a non-simulated run that recorded no errors, every directory
\* in scope (under a year-prefixed directory, plain mark only at the
\* start) carries its start name with each plain mark replaced by the
\* typographic mark, and its start path is an old path of the renamed
\* ledger.
C1_AllInScopeRenamed ==
  (RunOver /\ ~dry_run /\ error_dirs = <<>>) =>
    \A d \in InScope :
      /\ name[d] = Converted(start_name[d])
      /\ \E i \in 1..Len(renamed_dirs) : renamed_dirs[i][1] = StartPathOf(d)

\* ------------------------------------------------------------------ C2
\* C2: needs_standardization(name) is true exactly when the name has at
\* least one plain mark U+0027 and no typographic mark U+2019.
C2_NeedsIffPlainOnly ==
  upc \in {"classified", "standardized"} => (needs <=> PlainOnly(dir_name))

\* ------------------------------------------------------------------ C3
\* C3: for a name with the plain mark and without the typographic mark,
\* standardize_apostrophes returns a name of the same length with no plain
\* mark, at least one typographic mark, and every other character unchanged
\* in place.
C3_StandardizeConverts ==
  (upc = "standardized" /\ PlainOnly(dir_name)) =>
    /\ Len(std_name) = Len(dir_name)
    /\ ~Contains(std_name, U0027)
    /\ Contains(std_name, U2019)
    /\ \A i \in 1..Len(dir_name) :
         dir_name[i] # U0027 => std_name[i] = dir_name[i]

\* ------------------------------------------------------------------ C4
\* C4: whenever one processed path is an ancestor of another, every call of
\* rename_directory on the descendant comes before any call on the
\* ancestor.
C4_DescendantsFirst ==
  \A i, j \in 1..Len(calls) :
    IsProperPrefix(calls[i], calls[j]) => j < i

\* ------------------------------------------------------------------ C5
\* C5: a call of rename_directory on a directory whose name has the plain
\* mark only, and whose destination (parent joined with the converted name)
\* exists, appends <<source, "Destination already exists">> to the error
\* ledger and changes neither the filesystem nor the renamed ledger.
C5_NoOverwrite ==
  [][(/\ pc \in {"subdirs", "years"}
      /\ PlainOnly(Last(CurrentDir))
      /\ Exists(Append(Front(CurrentDir), Converted(Last(CurrentDir)))))
     => (/\ error_dirs' =
              Append(error_dirs, <<CurrentDir, "Destination already exists">>)
         /\ UNCHANGED <<fsvars, renamed_dirs>>)]_vars

\* ------------------------------------------------------------------ C6
\* C6: after a simulated run over a tree whose N directories in scope all
\* have free destinations, every directory still has its start name, the
\* renamed ledger has exactly N entries, one <<old path, intended new
\* path>> per directory in scope, and the error ledger is empty.
C6_DryRunRecordsIntent ==
  (/\ RunOver /\ dry_run
   /\ \A d \in InScope :
        ~Exists(Append(StartPathOf(parent[d]), Converted(start_name[d]))))
  => /\ name = start_name
     /\ Len(renamed_dirs) = Cardinality(InScope)
     /\ \A d \in InScope :
          \E i \in 1..Len(renamed_dirs) :
            renamed_dirs[i] =
              <<StartPathOf(d),
                Append(StartPathOf(parent[d]), Converted(start_name[d]))>>
     /\ error_dirs = <<>>

C9_ValidateVerdict ==
  [][pc = "validate" =>
       /\ UNCHANGED <<fsvars, ledgers>>
       /\ ~dry_run =>
            (validation_success' = FALSE <=>
               \/ \E i \in 1..Len(renamed_dirs) : ~Exists(renamed_dirs[i][2])
               \/ Processed = 0)]_vars

\* A non-simulated run over an existing tree that failed validation.
C9_Witness ==
  pc = "exit" /\ ~dry_run /\ Dirs # {} /\ validation_success = FALSE

\* ----------------------------------------------------------------- C10
\* C10: the exit status is 0 exactly when validation passed, and 1 when
\* validation failed or nothing was processed.
C10_ExitStatus ==
  pc = "done" =>
    /\ exit_status = 0 <=> validation_success
    /\ (~validation_success \/ Processed = 0) => exit_status = 1

\* A run that processed directories, passed validation and exits with 0.
C10_Witness ==
  pc = "done" /\ exit_status = 0 /\ validation_success /\ Processed > 0

\* -------------------------------------------------------- C11 .. C14
\* The destination the documentation gives the directory at CurrentDir.
CurrentDest == Append(Front(CurrentDir), Converted(Last(CurrentDir)))

\* rename_directory is about to be called on an existing directory whose
\* name has the plain mark only and whose destination is free.
RenameDue ==
  /\ pc \in {"subdirs", "years"}
  /\ PlainOnly(Last(CurrentDir))
  /\ Exists(CurrentDir)
  /\ ~Exists(CurrentDest)

\* C11: in a non-simulated run, when nothing fails in the operating system,
\* the call on such a directory leaves it under the converted name with the
\* permission bits, owner and times the source had before the call.
C11_MetadataKept ==
  [][(RenameDue /\ ~dry_run /\ os_env' = <<TRUE, TRUE, TRUE>>)
     => LET d == Resolve(CurrentDir)
        IN /\ name'[d] = Converted(Last(CurrentDir))
           /\ stat_info'[d] = stat_info[d]]_vars

\* C12: in a non-simulated run, when os.stat and the rename succeed and
\* restoring the metadata fails, the directory stays renamed, nothing is
\* appended to the error ledger and <<old path, new path>> is appended to
\* the renamed ledger.
C12_RestoreFailureKeepsRename ==
  [][(RenameDue /\ ~dry_run /\ os_env' = <<TRUE, TRUE, FALSE>>)
     => /\ name'[Resolve(CurrentDir)] = Converted(Last(CurrentDir))
        /\ error_dirs' = error_dirs
        /\ renamed_dirs' = Append(renamed_dirs, <<CurrentDir, CurrentDest>>)]_vars

\* C13: when os.stat fails for such a directory, the call appends
\* <<directory, "Failed to save metadata">> to the error ledger and leaves
\* the filesystem, the renamed ledger and the skipped ledger unchanged.
C13_CaptureFailureIsError ==
  [][(RenameDue /\ os_env'[1] = FALSE)
     => /\ error_dirs' =
             Append(error_dirs, <<CurrentDir, "Failed to save metadata">>)
        /\ UNCHANGED <<fsvars, renamed_dirs, skipped_dirs>>]_vars

\* C14: in a non-simulated run, when os.stat succeeds and the rename call
\* raises, the call appends one entry for the directory to the error
\* ledger, nothing to the renamed ledger, and the directory keeps its name.
C14_RenameExceptionIsError ==
  [][(RenameDue /\ ~dry_run /\ os_env'[1] = TRUE /\ os_env'[2] = FALSE)
     => /\ Len(error_dirs') = Len(error_dirs) + 1
        /\ error_dirs'[Len(error_dirs')][1] = CurrentDir
        /\ renamed_dirs' = renamed_dirs
        /\ name' = name]_vars

\* ----------------------------------------------------------------- C15
\* new is old with one entry appended.
Grown(new, old) == Len(new) = Len(old) + 1 /\ SubSeq(new, 1, Len(old)) = old

\* One step that makes exactly one ledger grow, by exactly one entry.
OneLedgerGrows ==
  \/ (Grown(renamed_dirs', renamed_dirs)
        /\ UNCHANGED <<skipped_dirs, error_dirs>>)
  \/ (Grown(skipped_dirs', skipped_dirs)
        /\ UNCHANGED <<renamed_dirs, error_dirs>>)
  \/ (Grown(error_dirs', error_dirs)
        /\ UNCHANGED <<renamed_dirs, skipped_dirs>>)

\* C15: every call of rename_directory appends exactly one entry to exactly
\* one of the three ledgers, and when the loops are over every element of
\* all_dirs and then of year_dirs has been passed to rename_directory, so
\* the ledgers together hold as many entries as there were elements.
C15_EveryElementOneOutcome ==
  /\ [](RunOver => (calls = all_dirs \o year_dirs
                      /\ Processed = Len(all_dirs) + Len(year_dirs)))
  /\ [][(pc \in {"subdirs", "years"}) => OneLedgerGrows]_vars

\* A finished processing of at least one subdirectory and one year
\* directory.
C15_Witness == RunOver /\ all_dirs # <<>> /\ Len(calls) >= 2

\* ----------------------------------------------------------------- C16
\* C16: after the loops of a non-simulated run, every directory under a
\* year-prefixed directory whose start name is not plain-mark-only (no
\* plain mark, or a typographic mark, mixed names included) is in the
\* skipped ledger and still has its start name.
C16_IneligibleSkipped ==
  (RunOver /\ ~dry_run) =>
    \A d \in Dirs :
      (UnderYear(d) /\ ~PlainOnly(start_name[d])) =>
        /\ name[d] = start_name[d]
        /\ \E i \in 1..Len(skipped_dirs) : skipped_dirs[i] = StartPathOf(d)

\* A finished non-simulated run over a year root named "2222", U+2019,
\* U+0027 (typographic mark, then plain mark).
C16_Witness ==
  /\ RunOver /\ ~dry_run
  /\ \E d \in Dirs :
       parent[d] = 0 /\ start_name[d] = YearPrefix \o <<U2019, U0027>>

\* ----------------------------------------------------------------- C17
\* C17: when base_dir does not exist, discovery finds no year directory and
\* no subdirectory, the ledgers stay empty, validation fails and the exit
\* status is 1.
C17_MissingBase ==
  ~base_exists =>
    /\ year_dirs = <<>> /\ all_dirs = <<>> /\ calls = <<>>
    /\ Processed = 0
    /\ pc \in {"exit", "done"} => ~validation_success
    /\ pc = "done" => exit_status = 1

\* A finished run over a base directory that does not exist.
C17_Witness == ~base_exists /\ pc = "done" /\ exit_status = 1

C20_RerunIsNoOp ==
  (run_no > 1 /\ prev_clean /\ ~dry_run) =>
    /\ renamed_dirs = <<>> /\ error_dirs = <<>>
    /\ Len(skipped_dirs) = Len(calls)
    /\ name = start_name

\* A finished second non-simulated run, after a clean first one, that
\* processed a directory with a plain-mark-only name.
C20_Witness ==
  /\ run_no = 2 /\ prev_clean /\ ~dry_run /\ pc = "done"
  /\ \E i \in 1..Len(calls) : PlainOnly(Last(calls[i]))

\* =========================================================================
\* The Strapi uploader scripts:
\*   "FIXED"           src/04_0_strapi_project_media_uploader_FIXED.py
\*   "bulk_draftonly"  src/strapi_project_media_uploader_bulk_draftonly.py
\*   "dryrun"          src/strapi_project_media_uploader_dryrun.py
\*   "dryrun_UPDATED"  src/strapi_project_media_uploader_dryrun_UPDATED.py
\* =========================================================================
\* The renamer is not running.
RenamerOff ==
  /\ base_exists = TRUE /\ dry_run = FALSE
  /\ parent = <<>> /\ name = <<>> /\ stat_info = <<>> /\ start_name = <<>>
  /\ RunIdle /\ NameTestIdle
  /\ env_open = FALSE /\ run_no = 1 /\ prev_clean = FALSE
  /\ pc = "off"

Scripts == {"FIXED", "bulk_draftonly", "dryrun", "dryrun_UPDATED"}

\* How a request ends: a response, raise_for_status raising HTTPError, or
\* requests raising another RequestException.
Outcomes == {"ok", "HTTPError", "ConnectionError"}

\* find_media_folder returned None (the media folder does not exist).
NoFolder == 0 - 1

\* A fetched project: its id, whether the published-at field the script
\* reads ("published_at" in FIXED, "publishedAt" in bulk_draftonly) is not
\* None, and how many files with an allowed extension its media folder
\* holds (NoFolder when the folder is missing).
ProjectRecords ==
  [id : 1..MaxProjects, published_at : BOOLEAN,
   media : {NoFolder} \cup (0..MaxMedia)]

\* What fetch_projects hands to main: records with distinct ids.
ProjectLists ==
  UNION {{ps \in [1..n -> ProjectRecords] : \A i \in 1..n : ps[i].id = i}
           : n \in 0..MaxProjects}

\* upload_file sends POST /api/upload for a media file.
POST_upload(project, f) == <<"POST", project.id, f>>
\* requests.put(f"{STRAPI_BASE_URL}/api/projects/{project_id}")
PUT_project(project) == <<"PUT", project.id, 0>>
\* requests.get(f"{STRAPI_BASE_URL}/api/projects/{project_id}")
GET_project(project) == <<"GET", project.id, 0>>

\* FIXED lines 106-136: the requests update_project_media_bulk sends.
update_project_media_bulk(project) ==
  IF project.published_at THEN <<>>
  ELSE IF DRY_RUN THEN <<>>
  ELSE <<PUT_project(project)>>

\* bulk_draftonly lines 130-191: the requests update_project_media sends;
\* get is how its GET ends.
update_project_media(project, get) ==
  IF get # "ok" THEN <<GET_project(project)>>
  ELSE IF DRY_RUN THEN <<GET_project(project)>>
  ELSE <<GET_project(project), PUT_project(project)>>

\* FIXED lines 194-195.
FIXED_after_files(project) ==
  IF media_ids # <<>> /\ ~project.published_at
  THEN update_project_media_bulk(project)
  ELSE <<>>

\* bulk_draftonly lines 267-283.  main() is called at line 290, before the
\* def of update_project_media_bulk at line 294 has run: the call at line
\* 269 raises NameError, caught at line 282.  In the else branch media_file
\* is the last file of the loop before.
bulk_draftonly_after_files(project, post, get) ==
  IF media_ids # <<>>
  THEN <<>>
  ELSE <<POST_upload(project, project.media)>>
         \o (IF post = "ok" THEN update_project_media(project, get)
             ELSE <<>>)

InitUpload ==
  /\ script \in Scripts
  /\ DRY_RUN \in BOOLEAN
  /\ projects \in ProjectLists
  /\ processed_ids = {} /\ project_no = 1 /\ file_no = 1
  /\ media_ids = <<>> /\ requests_log = <<>>
  /\ mpc = "project"
  /\ RenamerOff /\ FetchIdle /\ CollageIdle

\* The head of the loop body of main (FIXED lines 157-182, bulk_draftonly
\* 221-255, dryrun 163-193, dryrun_UPDATED 87-101).
NextProject ==
  /\ mpc = "project"
  /\ project_no <= Len(projects)
  /\ LET project == projects[project_no]
         dedup == script # "dryrun_UPDATED"
     IN IF dedup /\ project.id \in processed_ids
        THEN /\ project_no' = project_no + 1
             /\ UNCHANGED <<processed_ids, mpc, file_no, media_ids>>
        ELSE /\ processed_ids' = IF dedup
                                 THEN processed_ids \cup {project.id}
                                 ELSE processed_ids
             /\ IF project.media = NoFolder \/ project.media = 0
                THEN /\ project_no' = project_no + 1
                     /\ UNCHANGED <<mpc, file_no, media_ids>>
                ELSE /\ mpc' = "files"
                     /\ file_no' = 1
                     /\ media_ids' = <<>>
                     /\ UNCHANGED project_no
  /\ UNCHANGED <<script, DRY_RUN, projects, requests_log>>
  /\ UNCHANGED <<renamervars, fetchvars, collagevars>>

\* One iteration of the loop over media_files (FIXED lines 183-192,
\* bulk_draftonly 256-265, dryrun 195-204, dryrun_UPDATED 103-115).
UploadFile ==
  /\ mpc = "files"
  /\ file_no <= projects[project_no].media
  /\ \E post, put \in Outcomes :
       LET project == projects[project_no]
           POST == POST_upload(project, file_no)
           linked == IF post = "ok"
                     THEN <<POST, PUT_project(project)>> ELSE <<POST>>
           uncaught == \/ post = "ConnectionError"
                       \/ post = "ok" /\ put = "ConnectionError"
       IN IF DRY_RUN
          THEN /\ file_no' = file_no + 1
               /\ UNCHANGED <<media_ids, requests_log, mpc>>
          ELSE IF script \in {"FIXED", "bulk_draftonly"}
          THEN /\ requests_log' = Append(requests_log, POST)
               /\ media_ids' = IF post = "ok"
                               THEN Append(media_ids, file_no)
                               ELSE media_ids
               /\ file_no' = file_no + 1
               /\ UNCHANGED mpc
          ELSE IF script = "dryrun"
          THEN /\ requests_log' = requests_log \o linked
               /\ file_no' = file_no + 1
               /\ UNCHANGED <<media_ids, mpc>>
          ELSE /\ requests_log' = requests_log \o linked
               /\ mpc' = IF uncaught THEN "crashed" ELSE mpc
               /\ file_no' = IF uncaught THEN file_no ELSE file_no + 1
               /\ UNCHANGED media_ids
  /\ UNCHANGED <<script, DRY_RUN, projects, processed_ids, project_no>>
  /\ UNCHANGED <<renamervars, fetchvars, collagevars>>

\* What follows the loop over media_files, up to the next project (FIXED
\* lines 194-202, bulk_draftonly 267-288).
AfterFiles ==
  /\ mpc = "files"
  /\ file_no > projects[project_no].media
  /\ \E post, get \in Outcomes :
       LET project == projects[project_no]
       IN requests_log' = requests_log \o
            (IF script = "FIXED" THEN FIXED_after_files(project)
             ELSE IF script = "bulk_draftonly"
             THEN bulk_draftonly_after_files(project, post, get)
             ELSE <<>>)
  /\ project_no' = project_no + 1
  /\ file_no' = 1
  /\ mpc' = "project"
  /\ UNCHANGED <<script, DRY_RUN, projects, processed_ids, media_ids>>
  /\ UNCHANGED <<renamervars, fetchvars, collagevars>>

\* The loop over projects is exhausted and main returns.
MainReturns ==
  /\ mpc = "project"
  /\ project_no > Len(projects)
  /\ mpc' = "done"
  /\ UNCHANGED <<script, DRY_RUN, projects, processed_ids, project_no,
                 file_no, media_ids, requests_log>>
  /\ UNCHANGED <<renamervars, fetchvars, collagevars>>

NextUpload == NextProject \/ UploadFile \/ AfterFiles \/ MainReturns

SpecUpload == InitUpload /\ [][NextUpload]_vars

\* The requests that write to the server.
IsWrite(req) == req[1] \in {"POST", "PUT"}

\* ----------------------------------------------------------------- C21
\* C21: in the draft-only bulk uploaders (FIXED and bulk_draftonly), no
\* POST /api/upload and no PUT /api/projects/<id> is sent for a project
\* whose published-at field is not null.
C21_PublishedSkipped ==
  script \in {"FIXED", "bulk_draftonly"} =>
    \A k \in 1..Len(requests_log) :
      projects[requests_log[k][2]].published_at => ~IsWrite(requests_log[k])

\* ----------------------------------------------------------------- C22
\* C22: in every uploader script, a run with DRY_RUN true sends no
\* POST /api/upload and no PUT /api/projects/<id>.
C22_DryRunNoWrites ==
  DRY_RUN => \A k \in 1..Len(requests_log) : ~IsWrite(requests_log[k])

\* =========================================================================
\* fetch_projects of src/04_0_strapi_project_media_uploader_FIXED.py, lines
\* 30-93.  The loop over page_projects is the same, statement for
\* statement, in strapi_project_media_uploader_dryrun.py (lines 66-77) and
\* strapi_project_media_uploader_bulk_draftonly.py (lines 70-82).
\* =========================================================================
RequiredKeys == {"id", "Name", "Date"}

ProjectIds == {1, 2}

\* A record of the "data" list: the keys it has and, when it has the key
\* "id", the value under it (0 stands for no value).
Records ==
  {r \in [keys : SUBSET RequiredKeys, id : {0} \cup ProjectIds] :
     (r.id = 0) <=> ("id" \notin r.keys)}

\* The pages the server cuts a list of records into; an empty list is
\* served as one empty page.
RECURSIVE Paginate(_)
Paginate(recs) ==
  IF Len(recs) <= PageSize THEN <<recs>>
  ELSE <<SubSeq(recs, 1, PageSize)>>
         \o Paginate(SubSeq(recs, PageSize + 1, Len(recs)))

\* The records of all pages, in the order served.
RECURSIVE Flatten(_)
Flatten(pp) == IF pp = <<>> THEN <<>> ELSE Head(pp) \o Flatten(Tail(pp))

\* Line 63: all(key in proj for key in ['id', 'Name', 'Date']).
HasAllKeys(proj) == RequiredKeys \subseteq proj.keys

\* The records with all three keys, the first one of every id.
RECURSIVE FirstPerId(_, _)
FirstPerId(recs, seen) ==
  IF recs = <<>> THEN <<>>
  ELSE IF HasAllKeys(Head(recs)) /\ Head(recs).id \notin seen
  THEN <<Head(recs)>> \o FirstPerId(Tail(recs), seen \cup {Head(recs).id})
  ELSE FirstPerId(Tail(recs), seen)

InitFetch ==
  /\ \E n \in 0..MaxRecords :
       \E recs \in [1..n -> Records] : pages = Paginate(recs)
  /\ page = 1 /\ rec_no = 1 /\ seen_ids = {}
  /\ valid_projects = <<>> /\ all_projects = <<>>
  /\ fetch_error = "none"
  /\ fpc = "get"
  /\ RenamerOff /\ UploadIdle /\ CollageIdle

\* Lines 37-58: GET of the current page; raise_for_status may raise.
FetchPage ==
  /\ fpc = "get"
  /\ \E ok \in BOOLEAN :
       IF ok
       THEN /\ rec_no' = 1
            /\ valid_projects' = <<>>
            /\ fpc' = "filter"
            /\ UNCHANGED fetch_error
       ELSE /\ fetch_error' = "HTTPError"
            /\ fpc' = "raised"
            /\ UNCHANGED <<rec_no, valid_projects>>
  /\ UNCHANGED <<pages, page, seen_ids, all_projects>>
  /\ UNCHANGED <<renamervars, uploadvars, collagevars>>

\* Lines 59-67: one iteration of the loop over page_projects.  proj['id']
\* at line 60 raises KeyError when the record has no key "id".
FilterRecord ==
  /\ fpc = "filter"
  /\ rec_no <= Len(pages[page])
  /\ LET proj == pages[page][rec_no]
     IN IF "id" \notin proj.keys
        THEN /\ fetch_error' = "KeyError"
             /\ fpc' = "raised"
             /\ UNCHANGED <<rec_no, seen_ids, valid_projects>>
        ELSE IF proj.id \in seen_ids
        THEN /\ rec_no' = rec_no + 1
             /\ UNCHANGED <<seen_ids, valid_projects, fetch_error, fpc>>
        ELSE IF ~HasAllKeys(proj)
        THEN /\ rec_no' = rec_no + 1
             /\ UNCHANGED <<seen_ids, valid_projects, fetch_error, fpc>>
        ELSE /\ seen_ids' = seen_ids \cup {proj.id}
             /\ valid_projects' = Append(valid_projects, proj)
             /\ rec_no' = rec_no + 1
             /\ UNCHANGED <<fetch_error, fpc>>
  /\ UNCHANGED <<pages, page, all_projects>>
  /\ UNCHANGED <<renamervars, uploadvars, collagevars>>

\* Lines 69-80 and 93: the page is added, then the next page or return.
EndPage ==
  /\ fpc = "filter"
  /\ rec_no > Len(pages[page])
  /\ all_projects' = all_projects \o valid_projects
  /\ IF page >= Len(pages)
     THEN fpc' = "returned" /\ UNCHANGED page
     ELSE fpc' = "get" /\ page' = page + 1
  /\ UNCHANGED <<pages, rec_no, seen_ids, valid_projects, fetch_error>>
  /\ UNCHANGED <<renamervars, uploadvars, collagevars>>

NextFetch == FetchPage \/ FilterRecord \/ EndPage

SpecFetch == InitFetch /\ [][NextFetch]_vars

\* ----------------------------------------------------------------- C23
\* C23: when every request is answered, fetch_projects returns, and what
\* it returns is exactly the fetched records that have all of id, Name and
\* Date, the first one of every id; a record lacking a key (id included)
\* does not end the fetch.
C23_FetchKeepsValid ==
  (fpc \in {"returned", "raised"} /\ fetch_error # "HTTPError") =>
    /\ fpc = "returned"
    /\ all_projects = FirstPerId(Flatten(pages), {})

\* =========================================================================
\* src/02_0_copy_and_populate_collages.py.  The _collage directories found
\* by STEP 1 are 1..n; a source file matching FILENAME_SUFFIX is its
\* position in the glob, together with the directory that
\* difflib.get_close_matches answers for it (0 when the answer is empty).
\* =========================================================================
InitCollage ==
  /\ \E nd \in 0..MaxCollageDirs :
       /\ all_collage_dirs = 1..nd
       /\ \E nf \in 0..MaxSourceFiles :
            source_files \in [1..nf -> [closest : 0..nd]]
  /\ src_no = 1 /\ copied = {} /\ used_collage_dirs = {}
  /\ unmatched_files = <<>> /\ log_unmatched = <<>> /\ log_unused = {}
  /\ cpc = "copy"
  /\ RenamerOff /\ UploadIdle /\ FetchIdle

\* Lines 27-45: one iteration of the loop over the source files; copy_ok
\* is whether shutil.copy returns instead of raising.
CopyFile ==
  /\ cpc = "copy"
  /\ src_no <= Len(source_files)
  /\ \E copy_ok \in BOOLEAN :
       LET matches == source_files[src_no].closest
       IN IF matches # 0
          THEN IF copy_ok
               THEN /\ copied' = copied \cup {<<src_no, matches>>}
                    /\ used_collage_dirs' = used_collage_dirs \cup {matches}
                    /\ UNCHANGED unmatched_files
               ELSE UNCHANGED <<copied, used_collage_dirs, unmatched_files>>
          ELSE /\ unmatched_files' = Append(unmatched_files, src_no)
               /\ UNCHANGED <<copied, used_collage_dirs>>
  /\ src_no' = src_no + 1
  /\ UNCHANGED <<all_collage_dirs, source_files, log_unmatched, log_unused,
                 cpc>>
  /\ UNCHANGED <<renamervars, uploadvars, fetchvars>>

\* Lines 47-60: the unused directories are computed and the log is written.
WriteLog ==
  /\ cpc = "copy"
  /\ src_no > Len(source_files)
  /\ log_unmatched' = unmatched_files
  /\ log_unused' = {d \in all_collage_dirs : d \notin used_collage_dirs}
  /\ cpc' = "done"
  /\ UNCHANGED <<all_collage_dirs, source_files, src_no, copied,
                 used_collage_dirs, unmatched_files>>
  /\ UNCHANGED <<renamervars, uploadvars, fetchvars>>

NextCollage == CopyFile \/ WriteLog

SpecCollage == InitCollage /\ [][NextCollage]_vars

\* The directories a source file was copied into.
CopiedInto(f) == {d \in all_collage_dirs : <<f, d>> \in copied}

\* The file is listed under UNMATCHED FILES in the log.
Reported(f) == \E i \in 1..Len(log_unmatched) : log_unmatched[i] = f

\* ----------------------------------------------------------------- C24
\* C24: when the collage script has ended, every matching source file
\* either was copied into exactly one collage directory, its closest
\* match, which is marked as used, and is not in the log, or was copied
\* nowhere and is listed as unmatched in the log.
C24_CopiedOrReported ==
  cpc = "done" =>
    \A f \in 1..Len(source_files) :
      \/ /\ CopiedInto(f) = {source_files[f].closest}
         /\ source_files[f].closest \in used_collage_dirs
         /\ ~Reported(f)
      \/ /\ CopiedInto(f) = {}
         /\ Reported(f)
=============================================================================
